---- MODULE Spec2Model ----
(***************************************************************************)
(* Model of src/translate.py: class Translator.                            *)
(*                                                                         *)
(* A workbook is translated in four phases (translate_excel): the sheets   *)
(* are loaded, the non-ASCII sheet names are translated by a thread pool   *)
(* in the parent, every sheet is handed to translate_DataFrame in a pool   *)
(* of worker processes, and the results are collected in a dict and        *)
(* written.  The cache is a multiprocessing.Manager dict: every access is  *)
(* one atomic request to the manager, so the accesses of the threads and   *)
(* of the worker processes interleave freely.                              *)
(*                                                                         *)
(* Strings are sequences of code points, so that str.isascii is computed.  *)
(* The remote service is opaque: a call fails or returns any string of     *)
(* TransVals, chosen anew at every call.                                   *)
(***************************************************************************)
EXTENDS Integers, Sequences, FiniteSets, TLC

\* ------------------------------------------------------------------ bounds
MaxSheets == 2
NRows == 1
NCols == 1

\* ----------------------------------------------------------------- strings
A == <<97>>
B == <<98>>
J == <<233>>
K == <<26085>>

AllStr == {A, B, J, K}
\* what the service may return for a text
TransVals == {A, B}
\* the outcome of a service call that raised
Fail == <<>>

\* str.isascii(): every code point is below 128 (true of the empty string)
isascii(s) == \A i \in DOMAIN s : s[i] < 128

\* ------------------------------------------------------------------- cells
Str(s) == [kind |-> "str", val |-> s]
Num == [kind |-> "num", val |-> <<7>>]
\* NaN, the hole df[mask] leaves where the mask is False
NaN == [kind |-> "nan", val |-> <<>>]
\* Python's None, what dict.get(x) returns for a missing key
None == [kind |-> "none", val |-> <<>>]

CellVals == {Str(A), Str(J), Num}
NameVals == {A, J, K}
HeaderVals == {A, J}

Cols == 1..NCols
\* the cells of a frame, numbered in the order DataFrame.map visits them
Pos == 1..(NRows * NCols)

\* read_excel yields distinct column labels
Columns == {h \in [Cols -> HeaderVals] : \A i, j \in Cols : i # j => h[i] # h[j]}
Frames == [columns : Columns, cells : [Pos -> CellVals]]
\* a workbook file: its sheets in order, with distinct names
Workbooks ==
    UNION {{w \in [1..n -> [name : NameVals, df : Frames]] :
              \A i, j \in 1..n : i # j => w[i].name # w[j].name} : n \in 1..MaxSheets}

\* ------------------------------------------------------------------- state
VARIABLES
    pc,             \* where translate_excel (and the constructor) stands
    pathExists,     \* os.path.exists(file_path)
    book,           \* the workbook in the file at file_path
    cache,          \* self.cache: text -> translation
    dfs,            \* translate_excel: the loaded sheets
    args,           \* translate_excel: the (name, frame) pairs for the pool
    inflight,       \* per caller: the submitted translate tasks not yet returned
    ppc,            \* per sheet: where its translate_DataFrame stands
    idx,            \* per sheet: the next cell / column to look up
    lookup_df,      \* per sheet: translate_DataFrame's lookup_df
    translated_df,  \* per sheet: translate_DataFrame's translated_df
    results,        \* what pool.starmap has returned, in the order of args
    translated_dfs, \* translate_excel: the dict built from results
    written,        \* the sheets written to the output file, in order
    issued,         \* history: per caller and text, the service calls issued
    okVals,         \* history: per text, the values the service returned
    failed,         \* history: per caller, the texts whose service call failed
    keysAtCheck,    \* history: per caller, the cache keys check_cache saw
    missed,         \* history: per sheet, the cells whose lookup found no entry
    cacheMade,      \* __init__ has created self.cache
    finish_order    \* history: the sheets in the order their workers returned

vars == <<pc, pathExists, book, cache, dfs, args, inflight, ppc, idx, lookup_df,
          translated_df, results, translated_dfs, written, issued, okVals,
          failed, keysAtCheck, missed, cacheMade, finish_order>>

\* caller 0 is translate_excel itself, caller p is the worker of sheet p
Callers == 0..MaxSheets
Sheets == 1..Len(dfs)

EmptyDict == [x \in {} |-> <<>>]

\* dict[k] = v
DictPut(d, k, v) == [x \in (DOMAIN d) \cup {k} |-> IF x = k THEN v ELSE d[x]]
\* dict.get(k, default)
DictGet(d, k, default) == IF k \in DOMAIN d THEN d[k] ELSE default


\* ------------------------------------------------- Translator.translate
\* The cache after translate(item) whose service call ended with resp: the
\* response is stored under item; an exception is logged and swallowed.
translateSwapped(c, item, resp) == IF resp = Fail THEN c ELSE DictPut(c, resp, item)
translateEvict(c, item, resp) ==
    IF resp = Fail THEN [x \in (DOMAIN c) \ {item} |-> c[x]] ELSE DictPut(c, item, resp)
translateKeepOriginal(c, item, resp) ==
    IF resp = Fail THEN DictPut(c, item, item) ELSE DictPut(c, item, resp)
translate(c, item, resp) == IF resp = Fail THEN c ELSE DictPut(c, item, resp)

\* ----------------------------------------------- Translator.check_cache
\* list(set(items) - set(self.cache.keys()))
check_cacheAll(items, c) == items
check_cache(items, c) == items \ DOMAIN c

\* ------------------------------------------- Translator.translate_async
\* The with-block of the ThreadPoolExecutor ends when every submitted task
\* has returned.
async_joinedNoWait(who) == TRUE
async_joined(who) == inflight[who] = {}

\* translate_async(items) by caller who: one task per item, each issuing one
\* service call.
translate_async(who, items) ==
    /\ inflight' = [inflight EXCEPT ![who] = items]
    /\ issued' = [issued EXCEPT ![who] =
                    [s \in AllStr |-> IF s \in items THEN @[s] + 1 ELSE @[s]]]

\* a variant that submits the item again when its call has failed
TaskReturnRetry(who, item, resp) ==
    /\ item \in inflight[who]
    /\ cache' = translate(cache, item, resp)
    /\ inflight' = IF resp = Fail THEN inflight
                   ELSE [inflight EXCEPT ![who] = @ \ {item}]
    /\ okVals' = IF resp = Fail THEN okVals
                 ELSE [okVals EXCEPT ![item] = @ \cup {resp}]
    /\ failed' = IF resp = Fail THEN [failed EXCEPT ![who] = @ \cup {item}]
                 ELSE failed
    /\ issued' = IF resp = Fail THEN [issued EXCEPT ![who][item] = @ + 1]
                 ELSE issued

\* One task of caller who returns: translate(item) with the service's response.
TaskReturn(who, item, resp) ==
    /\ item \in inflight[who]
    /\ cache' = translate(cache, item, resp)
    /\ inflight' = [inflight EXCEPT ![who] = @ \ {item}]
    /\ okVals' = IF resp = Fail THEN okVals
                 ELSE [okVals EXCEPT ![item] = @ \cup {resp}]
    /\ failed' = IF resp = Fail THEN [failed EXCEPT ![who] = @ \cup {item}]
                 ELSE failed
    /\ issued' = issued

\* ------------------------------------------ Translator.translate_DataFrame
\* headers = [header for header in df.columns if not header.isascii()]
headers(df) == {df.columns[i] : i \in {j \in Cols : ~isascii(df.columns[j])}}

\* mask = df.map(lambda x: isinstance(x, str) and not x.isascii())
maskAnyStr(df) == [k \in Pos |-> df.cells[k].kind = "str"]
mask(df) == [k \in Pos |-> df.cells[k].kind = "str" /\ ~isascii(df.cells[k].val)]

\* unique_items = set(df[mask].stack())
unique_items(df) == {df.cells[k].val : k \in {n \in Pos : mask(df)[n]}}

\* all_items = list(unique_items.union(set(headers)))
all_items(df) == unique_items(df) \cup headers(df)

\* df[mask]: the flagged cells, NaN elsewhere
masked(df) == [k \in Pos |-> IF mask(df)[k] THEN df.cells[k] ELSE NaN]

\* lambda x: self.cache.get(x), the lookup of one cell of lookup_df
cell_lookupKey(c, x) == IF x \in DOMAIN c THEN Str(x) ELSE None
cell_lookup(c, x) == IF x \in DOMAIN c THEN Str(c[x]) ELSE None

\* df.mask(mask, lookup_df): the cells of lookup where the mask holds
df_mask(df, lookup) == [k \in Pos |-> IF mask(df)[k] THEN lookup[k] ELSE df.cells[k]]

\* self.cache.get(old, old), the new label of one column
header_lookupNoDefault(c, old) == DictGet(c, old, Fail)
header_lookup(c, old) == DictGet(c, old, old)

\* the flagged cells of df not yet looked up
ToLookUp(df, i) == {k \in Pos : k >= i /\ mask(df)[k]}
Min(S) == CHOOSE x \in S : \A y \in S : x <= y


\* a frame not yet computed
NoFrame == [columns |-> <<>>, cells |-> <<>>]

\* {key: value for key, value in results}: a dict keeps one entry per key, at
\* the place of the key's first insertion, holding the value inserted last
\* a variant that lists the sheets in the opposite order
dict_ofReversed(pairs) == [i \in DOMAIN pairs |-> pairs[Len(pairs) + 1 - i]]

RECURSIVE dict_of(_)
dict_of(pairs) ==
    IF pairs = <<>> THEN <<>>
    ELSE LET d == dict_of(SubSeq(pairs, 1, Len(pairs) - 1))
             last == pairs[Len(pairs)]
         IN  IF \E i \in DOMAIN d : d[i].name = last.name
             THEN [i \in DOMAIN d |->
                     IF d[i].name = last.name THEN last ELSE d[i]]
             ELSE Append(d, last)

\* -------------------------------------------------------------------- Init
Init ==
    /\ pc = "new"
    /\ pathExists \in BOOLEAN
    /\ book \in Workbooks
    /\ cache = EmptyDict
    /\ dfs = <<>>
    /\ args = <<>>
    /\ inflight = [c \in Callers |-> {}]
    /\ ppc = [p \in 1..MaxSheets |-> "idle"]
    /\ idx = [p \in 1..MaxSheets |-> 1]
    /\ lookup_df = [p \in 1..MaxSheets |-> <<>>]
    /\ translated_df = [p \in 1..MaxSheets |-> NoFrame]
    /\ results = <<>>
    /\ translated_dfs = <<>>
    /\ written = <<>>
    /\ issued = [c \in Callers |-> [s \in AllStr |-> 0]]
    /\ okVals = [s \in AllStr |-> {}]
    /\ failed = [c \in Callers |-> {}]
    /\ keysAtCheck = [c \in Callers |-> {}]
    /\ missed = [p \in 1..MaxSheets |-> {}]
    /\ cacheMade = FALSE
    /\ finish_order = <<>>

\* ---------------------------------------- Translator.__init__ / file_path
\* a variant that creates the cache before the path is checked
ConstructCacheFirst ==
    /\ pc = "new"
    /\ cache' = EmptyDict
    /\ cacheMade' = TRUE
    /\ pc' = IF pathExists THEN "ready" ELSE "error"
    /\ UNCHANGED <<pathExists, book, dfs, args, inflight, ppc, idx,
                   lookup_df, translated_df, results, translated_dfs,
                   written, issued, okVals, failed, keysAtCheck, missed,
                   finish_order>>

\* self.file_path = file_path raises FileNotFoundError in the setter, first;
\* self.cache = MANAGER.dict() comes after it
Construct ==
    /\ pc = "new"
    /\ IF pathExists
       THEN pc' = "ready" /\ cache' = EmptyDict /\ cacheMade' = TRUE
       ELSE pc' = "error" /\ UNCHANGED <<cache, cacheMade>>
    /\ UNCHANGED <<pathExists, book, dfs, args, inflight, ppc, idx,
                   lookup_df, translated_df, results, translated_dfs,
                   written, issued, okVals, failed, keysAtCheck, missed,
                   finish_order>>

\* ------------------------------------------------- Translator.open_excel
\* dfs = self.open_excel(): every sheet of the file, or the reader raises
open_excel ==
    /\ pc = "ready"
    /\ \/ dfs' = book /\ pc' = "loaded"
       \/ pc' = "aborted" /\ UNCHANGED dfs
    /\ UNCHANGED <<pathExists, book, cache, args, inflight, ppc, idx,
                   lookup_df, translated_df, results, translated_dfs,
                   written, issued, okVals, failed, keysAtCheck, missed,
                   cacheMade, finish_order>>

\* ---------------------------------------------- Translator.translate_excel
\* worksheet_names = [name for name in dfs.keys() if not name.isascii()]
worksheet_names(d) == {d[i].name : i \in {j \in DOMAIN d : ~isascii(d[j].name)}}

\* check_cache on the sheet names, then translate_async when any is missing
TranslateNames ==
    /\ pc = "loaded"
    /\ LET worksheet_names_to_translate == check_cache(worksheet_names(dfs), cache)
       IN  IF Cardinality(worksheet_names_to_translate) > 0
           THEN translate_async(0, worksheet_names_to_translate)
           ELSE UNCHANGED <<inflight, issued>>
    /\ keysAtCheck' = [keysAtCheck EXCEPT ![0] = DOMAIN cache]
    /\ pc' = "names"
    /\ UNCHANGED <<pathExists, book, cache, dfs, args, ppc, idx, lookup_df,
                   translated_df, results, translated_dfs, written, okVals,
                   failed, missed,
                   cacheMade, finish_order>>

\* a thread of the parent's pool returns from translate(item)
NameTaskReturn ==
    /\ pc = "names"
    /\ \E item \in inflight[0], resp \in TransVals \cup {Fail} :
           TaskReturn(0, item, resp)
    /\ UNCHANGED <<pc, pathExists, book, dfs, args, ppc, idx, lookup_df,
                   translated_df, results, translated_dfs, written,
                   keysAtCheck, missed,
                   cacheMade, finish_order>>

\* args = [(self.cache.get(key, key), value) for key, value in dfs.items()]
build_argsKeepName(c, d) == [i \in DOMAIN d |-> [name |-> d[i].name, df |-> d[i].df]]
build_args(c, d) ==
    [i \in DOMAIN d |-> [name |-> DictGet(c, d[i].name, d[i].name), df |-> d[i].df]]

\* translate_async has returned: the pairs are built and the pool is started
BuildArgs ==
    /\ pc = "names"
    /\ async_joined(0)
    /\ args' = build_args(cache, dfs)
    /\ pc' = "pool"
    /\ UNCHANGED <<pathExists, book, cache, dfs, inflight, ppc, idx,
                   lookup_df, translated_df, results, translated_dfs,
                   written, issued, okVals, failed, keysAtCheck, missed,
                   cacheMade, finish_order>>

\* ---------------------------- translate_DataFrame in the worker of sheet p
\* the scan of the frame, check_cache and the submission of the tasks
DFStart(p) ==
    /\ pc = "pool"
    /\ ppc[p] = "idle"
    /\ LET df == args[p].df
           items_to_translate == check_cache(all_items(df), cache)
       IN  /\ translate_async(p, items_to_translate)
           /\ lookup_df' = [lookup_df EXCEPT ![p] = masked(df)]
    /\ keysAtCheck' = [keysAtCheck EXCEPT ![p] = DOMAIN cache]
    /\ ppc' = [ppc EXCEPT ![p] = "async"]
    /\ UNCHANGED <<pc, pathExists, book, cache, dfs, args, idx,
                   translated_df, results, translated_dfs, written, okVals,
                   failed, missed,
                   cacheMade, finish_order>>

\* a thread of the worker's pool returns from translate(item)
DFTaskReturn(p) ==
    /\ ppc[p] = "async"
    /\ \E item \in inflight[p], resp \in TransVals \cup {Fail} :
           TaskReturn(p, item, resp)
    /\ UNCHANGED <<pc, pathExists, book, dfs, args, ppc, idx, lookup_df,
                   translated_df, results, translated_dfs, written,
                   keysAtCheck, missed,
                   cacheMade, finish_order>>

\* a variant in which translate_DataFrame goes on without the join
DFJoinNoWait(p) ==
    /\ ppc[p] = "async"
    /\ ppc' = [ppc EXCEPT ![p] = "lookup"]
    /\ UNCHANGED <<pc, pathExists, book, cache, dfs, args, inflight, idx,
                   lookup_df, translated_df, results, translated_dfs, written,
                   issued, okVals, failed, keysAtCheck, missed, cacheMade,
                   finish_order>>

\* translate_async returns to translate_DataFrame
DFJoin(p) ==
    /\ ppc[p] = "async"
    /\ async_joined(p)
    /\ ppc' = [ppc EXCEPT ![p] = "lookup"]
    /\ UNCHANGED <<pc, pathExists, book, cache, dfs, args, inflight, idx,
                   lookup_df, translated_df, results, translated_dfs,
                   written, issued, okVals, failed, keysAtCheck, missed,
                   cacheMade, finish_order>>

\* df[mask].map(...): the cache lookup of the next flagged cell
DFCell(p) ==
    /\ ppc[p] = "lookup"
    /\ ToLookUp(args[p].df, idx[p]) # {}
    /\ LET k == Min(ToLookUp(args[p].df, idx[p]))
       IN  /\ lookup_df' = [lookup_df EXCEPT
                              ![p][k] = cell_lookup(cache, args[p].df.cells[k].val)]
           /\ missed' = [missed EXCEPT ![p] =
                           IF args[p].df.cells[k].val \in DOMAIN cache
                           THEN @ ELSE @ \cup {k}]
           /\ idx' = [idx EXCEPT ![p] = k + 1]
    /\ UNCHANGED <<pc, pathExists, book, cache, dfs, args, inflight, ppc,
                   translated_df, results, translated_dfs, written, issued,
                   okVals, failed, keysAtCheck,
                   cacheMade, finish_order>>

\* translated_df = df.mask(mask, lookup_df)
DFMask(p) ==
    /\ ppc[p] = "lookup"
    /\ ToLookUp(args[p].df, idx[p]) = {}
    /\ translated_df' = [translated_df EXCEPT ![p] =
                           [columns |-> args[p].df.columns,
                            cells |-> df_mask(args[p].df, lookup_df[p])]]
    /\ idx' = [idx EXCEPT ![p] = 1]
    /\ ppc' = [ppc EXCEPT ![p] = "rename"]
    /\ UNCHANGED <<pc, pathExists, book, cache, dfs, args, inflight,
                   lookup_df, results, translated_dfs, written, issued,
                   okVals, failed, keysAtCheck, missed,
                   cacheMade, finish_order>>

\* the dict of translated_df.rename: the cache lookup of the next column label
DFRename(p) ==
    /\ ppc[p] = "rename"
    /\ idx[p] <= NCols
    /\ translated_df' = [translated_df EXCEPT ![p].columns[idx[p]] =
                           header_lookup(cache, args[p].df.columns[idx[p]])]
    /\ idx' = [idx EXCEPT ![p] = @ + 1]
    /\ UNCHANGED <<pc, pathExists, book, cache, dfs, args, inflight, ppc,
                   lookup_df, results, translated_dfs, written, issued,
                   okVals, failed, keysAtCheck, missed,
                   cacheMade, finish_order>>

\* return key, translated_df
DFReturn(p) ==
    /\ ppc[p] = "rename"
    /\ idx[p] > NCols
    /\ ppc' = [ppc EXCEPT ![p] = "returned"]
    /\ finish_order' = Append(finish_order, p)
    /\ UNCHANGED <<pc, pathExists, book, cache, dfs, args, inflight, idx,
                   lookup_df, translated_df, results, translated_dfs,
                   written, issued, okVals, failed, keysAtCheck, missed,
                   cacheMade>>

\* ------------------------------------- translate_excel, after the fan-out
\* a variant that collects as soon as one worker has returned
CollectEarly ==
    /\ pc = "pool"
    /\ \E p \in Sheets : ppc[p] = "returned"
    /\ results' = [p \in Sheets |-> [name |-> args[p].name, df |-> translated_df[p]]]
    /\ translated_dfs' = dict_of(results')
    /\ pc' = "write"
    /\ UNCHANGED <<pathExists, book, cache, dfs, args, inflight, ppc, idx,
                   lookup_df, translated_df, written, issued, okVals, failed,
                   keysAtCheck, missed, cacheMade, finish_order>>

\* results = pool.starmap(...), in the order of args, and the dict built from it
Collect ==
    /\ pc = "pool"
    /\ \A p \in Sheets : ppc[p] = "returned"
    /\ results' = [p \in Sheets |-> [name |-> args[p].name, df |-> translated_df[p]]]
    /\ translated_dfs' = dict_of(results')
    /\ pc' = "write"
    /\ UNCHANGED <<pathExists, book, cache, dfs, args, inflight, ppc, idx,
                   lookup_df, translated_df, written, issued, okVals, failed,
                   keysAtCheck, missed,
                   cacheMade, finish_order>>

\* for name, df in translated_dfs.items(): df.to_excel(writer, sheet_name=name)
Write ==
    /\ pc = "write"
    /\ written' = translated_dfs
    /\ pc' = "done"
    /\ UNCHANGED <<pathExists, book, cache, dfs, args, inflight, ppc, idx,
                   lookup_df, translated_df, results, translated_dfs, issued,
                   okVals, failed, keysAtCheck, missed,
                   cacheMade, finish_order>>

DFStartAny == \E p \in Sheets : DFStart(p)
DFTaskReturnAny == \E p \in Sheets : DFTaskReturn(p)
DFJoinAny == \E p \in Sheets : DFJoin(p)
DFCellAny == \E p \in Sheets : DFCell(p)
DFMaskAny == \E p \in Sheets : DFMask(p)
DFRenameAny == \E p \in Sheets : DFRename(p)
DFReturnAny == \E p \in Sheets : DFReturn(p)

Next ==
    \/ Construct
    \/ open_excel
    \/ TranslateNames
    \/ NameTaskReturn
    \/ BuildArgs
    \/ DFStartAny
    \/ DFTaskReturnAny
    \/ DFJoinAny
    \/ DFCellAny
    \/ DFMaskAny
    \/ DFRenameAny
    \/ DFReturnAny
    \/ Collect
    \/ Write

Spec == Init /\ [][Next]_vars

\* =================================================================== claims
\* the texts of a loaded sheet: its string cells and its column labels
CellTexts(df) == {df.cells[k].val : k \in {n \in Pos : df.cells[n].kind = "str"}}
HeaderTexts(df) == {df.columns[i] : i \in Cols}
\* the flagged texts of the workbook: cell values, headers and sheet names
FlaggedOfSheet(p) == {s \in CellTexts(dfs[p].df) \cup HeaderTexts(dfs[p].df) : ~isascii(s)}
FlaggedOfBook ==
    UNION {FlaggedOfSheet(p) \cup {s \in {dfs[p].name} : ~isascii(s)} : p \in Sheets}
\* the flagged cells of sheet p
FlaggedCells(p) ==
    {k \in Pos : dfs[p].df.cells[k].kind = "str" /\ ~isascii(dfs[p].df.cells[k].val)}
\* the service calls issued for a text by all callers
RECURSIVE SumIssued(_, _)
SumIssued(s, n) == IF n < 0 THEN 0 ELSE issued[n][s] + SumIssued(s, n - 1)
IssuedFor(s) == SumIssued(s, MaxSheets)
AnyFail == UNION {failed[c] : c \in Callers}
Finished == pc \in {"write", "done"}

\* C1: in the frame a sheet processor returns, every flagged cell whose final
\* lookup found no cache entry holds the original input value.
C1_CellFallback ==
    \A p \in Sheets : ppc[p] = "returned" =>
        \A k \in missed[p] : translated_df[p].cells[k] = dfs[p].df.cells[k]

\* C2: when the run is over, every flagged header and every flagged sheet name
\* for which no service call succeeded is output as the original string, and
\* the run has not been aborted.
C2_HeaderNameFallback ==
    /\ dfs # <<>> => pc \notin {"error", "aborted"}
    /\ Finished =>
         \A p \in Sheets :
            /\ \A i \in Cols :
                 LET h == dfs[p].df.columns[i]
                 IN  (~isascii(h) /\ okVals[h] = {}) => results[p].df.columns[i] = h
            /\ LET n == dfs[p].name
               IN  (~isascii(n) /\ okVals[n] = {}) =>
                      /\ results[p].name = n
                      /\ \E q \in DOMAIN translated_dfs : translated_dfs[q].name = n
                      /\ pc = "done" => \E q \in DOMAIN written : written[q].name = n

C2_Witness ==
    /\ pc = "done"
    /\ \E p \in Sheets :
         /\ ~isascii(dfs[p].name) /\ dfs[p].name \in AnyFail /\ okVals[dfs[p].name] = {}
         /\ \E i \in Cols : LET h == dfs[p].df.columns[i]
                            IN  ~isascii(h) /\ h \in AnyFail /\ okVals[h] = {}

\* C3: when translate_excel has finished, every flagged text of the workbook
\* for which some call succeeded is a cache key holding a value the service
\* returned for it, and a flagged text is absent from the cache only if at
\* least one call was issued for it and none succeeded.
C3_CacheComplete ==
    pc = "done" =>
        \A s \in FlaggedOfBook :
            /\ okVals[s] # {} => (s \in DOMAIN cache /\ cache[s] \in okVals[s])
            /\ s \notin DOMAIN cache =>
                  (IssuedFor(s) >= 1 /\ okVals[s] = {} /\ s \in AnyFail)

C3_Witness ==
    /\ pc = "done"
    /\ \E s, t \in FlaggedOfBook :
         /\ s \in DOMAIN cache /\ s \in AnyFail /\ IssuedFor(s) >= 2
         /\ t \notin DOMAIN cache /\ IssuedFor(t) >= 1

\* C4: every text ever passed to the service, by translate_excel or by a sheet
\* processor, contains a non-ASCII character.
C4_OnlyFlaggedSent ==
    \A c \in Callers : \A s \in AllStr : issued[c][s] > 0 => ~isascii(s)

C4_Witness ==
    /\ \E s \in AllStr : issued[0][s] > 0
    /\ \E p \in Sheets : \E s \in AllStr :
         /\ issued[p][s] > 0
         /\ isascii(dfs[p].name)
         /\ \E k \in Pos : dfs[p].df.cells[k] = Str(A)
    /\ \E p \in Sheets : \E s \in AllStr :
         issued[p][s] > 0 /\ \E i \in Cols : dfs[p].df.columns[i] = A

\* C5: in the written workbook every ASCII-only or non-text cell, every
\* ASCII-only header and every ASCII-only sheet name stands unchanged at its
\* place.
C5_AsciiUnchanged ==
    pc = "done" =>
        /\ Len(written) = Len(dfs)
        /\ \A p \in Sheets :
             /\ isascii(dfs[p].name) => written[p].name = dfs[p].name
             /\ \A k \in Pos \ FlaggedCells(p) :
                    written[p].df.cells[k] = dfs[p].df.cells[k]
             /\ \A i \in Cols : isascii(dfs[p].df.columns[i]) =>
                    written[p].df.columns[i] = dfs[p].df.columns[i]

\* The same frame property on what the sheet processors return, before the
\* results are put in a dict: this part the code keeps.
AsciiUnchangedInResults ==
    Finished =>
        \A p \in Sheets :
             /\ isascii(dfs[p].name) => results[p].name = dfs[p].name
             /\ \A k \in Pos \ FlaggedCells(p) :
                    results[p].df.cells[k] = dfs[p].df.cells[k]
             /\ \A i \in Cols : isascii(dfs[p].df.columns[i]) =>
                    results[p].df.columns[i] = dfs[p].df.columns[i]

\* the caller has passed its check_cache and submitted its tasks
Dispatched(c) == IF c = 0 THEN pc \notin {"new", "ready", "loaded", "error", "aborted"}
                 ELSE c \in Sheets /\ ppc[c] # "idle"
\* the flagged texts caller c is responsible for
FlaggedOfCaller(c) ==
    IF c = 0 THEN {s \in {dfs[p].name : p \in Sheets} : ~isascii(s)}
    ELSE FlaggedOfSheet(c)

\* C6: a caller that has dispatched has issued exactly one call for each of its
\* flagged texts that was no cache key when it called check_cache and none for
\* any other text; a flagged cell whose text was a key then is output as a
\* translation the cache held for it.
C6_ExactlyMissing ==
    /\ \A c \in Callers : Dispatched(c) =>
          \A s \in AllStr :
             issued[c][s] = IF s \in FlaggedOfCaller(c) \ keysAtCheck[c] THEN 1 ELSE 0
    /\ \A p \in Sheets : ppc[p] = "returned" =>
          \A k \in FlaggedCells(p) :
             dfs[p].df.cells[k].val \in keysAtCheck[p] =>
                /\ translated_df[p].cells[k].kind = "str"
                /\ translated_df[p].cells[k].val \in okVals[dfs[p].df.cells[k].val]

C6_Witness ==
    \E p, q \in Sheets :
        /\ ppc[p] = "returned" /\ ppc[q] = "returned"
        /\ \E k \in FlaggedCells(p) :
             LET s == dfs[p].df.cells[k].val
             IN  s \in keysAtCheck[p] /\ issued[p][s] = 0
                 /\ translated_df[p].cells[k] = Str(cache[s])
        /\ \E s \in FlaggedOfSheet(q) : s \notin keysAtCheck[q] /\ issued[q][s] = 1

\* C7: the written workbook has one sheet per loaded sheet, and the frame each
\* sheet processor returned is in it.
C7_OneSheetPerInput ==
    pc = "done" =>
        /\ Len(written) = Len(dfs)
        /\ \A p \in Sheets : \E q \in DOMAIN written : written[q].df = results[p].df

\* the service has answered every call so far, and always the same for a text
SuccessfulDeterministic == AnyFail = {} /\ \A s \in AllStr : Cardinality(okVals[s]) <= 1

\* C8: no sheet processor issues more than one call for a text, and when the
\* service never failed and answered each text consistently, every flagged
\* cell of every returned frame holds the service's translation of its text.
C8_RedundantSameValue ==
    /\ \A p \in Sheets : \A s \in AllStr : issued[p][s] <= 1
    /\ (Finished /\ SuccessfulDeterministic) =>
          \A p \in Sheets : \A k \in FlaggedCells(p) :
             /\ results[p].df.cells[k].kind = "str"
             /\ okVals[dfs[p].df.cells[k].val] = {results[p].df.cells[k].val}

C8_Witness ==
    /\ Finished /\ SuccessfulDeterministic
    /\ Len(dfs) = 2
    /\ \E s \in AllStr :
         /\ issued[1][s] = 1 /\ issued[2][s] = 1
         /\ \E k \in FlaggedCells(1) : dfs[1].df.cells[k].val = s
         /\ \E k \in FlaggedCells(2) : dfs[2].df.cells[k].val = s

\* C9 as claimed: once a call for a text has failed, no caller issues a further
\* call for it and the text stays absent from the cache.
C9_NoRetryInRun ==
    [][\A s \in AnyFail :
          /\ \A c \in Callers : issued'[c][s] = issued[c][s]
          /\ s \notin DOMAIN cache => s \notin DOMAIN cache']_vars

\* C9, amended: once a call for a text issued by a caller has failed, that
\* caller issues no further call for it, and the text becomes a cache key only
\* when a call of another caller for it returns.
C9_NoRetryByCaller ==
    [][\A c \in Callers : \A s \in failed[c] :
          /\ issued'[c][s] = issued[c][s]
          /\ (s \notin DOMAIN cache /\ s \in DOMAIN cache') =>
                \E d \in Callers \ {c} : s \in inflight[d] /\ s \notin inflight'[d]]_vars

C9_Witness ==
    \E p \in Sheets : \E s \in failed[0] :
        /\ issued[p][s] = 1
        /\ s \in DOMAIN cache
        /\ issued[0][s] = 1

\* the scheduler runs every thread and every worker process, and every service
\* call returns: the run never stops while a step is possible
FairSpec == Spec /\ WF_vars(Next)

FlaggedOfFile(w) ==
    UNION {{s \in CellTexts(w[p].df) \cup HeaderTexts(w[p].df) \cup {w[p].name} :
              ~isascii(s)} : p \in DOMAIN w}

\* translate_excel called again on a Translator whose first run, with a service
\* that answered every call, has left every flagged text of the file in the
\* cache; the locals of translate_excel are new
InitRerun ==
    /\ pc = "ready"
    /\ pathExists = TRUE
    /\ cacheMade = TRUE
    /\ book \in Workbooks
    /\ cache \in [FlaggedOfFile(book) -> TransVals]
    /\ dfs = <<>>
    /\ args = <<>>
    /\ inflight = [c \in Callers |-> {}]
    /\ ppc = [p \in 1..MaxSheets |-> "idle"]
    /\ idx = [p \in 1..MaxSheets |-> 1]
    /\ lookup_df = [p \in 1..MaxSheets |-> <<>>]
    /\ translated_df = [p \in 1..MaxSheets |-> NoFrame]
    /\ results = <<>>
    /\ translated_dfs = <<>>
    /\ written = <<>>
    /\ issued = [c \in Callers |-> [s \in AllStr |-> 0]]
    /\ okVals = [s \in AllStr |-> {}]
    /\ failed = [c \in Callers |-> {}]
    /\ keysAtCheck = [c \in Callers |-> {}]
    /\ missed = [p \in 1..MaxSheets |-> {}]
    /\ finish_order = <<>>

\* a first run of a new Translator, or a second run of one
RerunSpec == (Init \/ InitRerun) /\ [][Next]_vars

\* the sheet the workbook w yields for its sheet p when the service translates
\* as the function t
SheetOf(w, t, p) ==
    [name |-> IF isascii(w[p].name) THEN w[p].name ELSE t[w[p].name],
     df |-> [columns |-> [i \in Cols |->
                            IF isascii(w[p].df.columns[i]) THEN w[p].df.columns[i]
                            ELSE t[w[p].df.columns[i]]],
             cells |-> [k \in Pos |->
                          IF w[p].df.cells[k].kind = "str" /\ ~isascii(w[p].df.cells[k].val)
                          THEN Str(t[w[p].df.cells[k].val])
                          ELSE w[p].df.cells[k]]]]
\* the sheets of the output: of the sheets given one name, the last one
OutputOf(w, t) ==
    {SheetOf(w, t, p) : p \in {q \in DOMAIN w :
        \A r \in DOMAIN w : r > q => SheetOf(w, t, r).name # SheetOf(w, t, q).name}}

\* C11: with a service that answers every call and always the same for a
\* text, the written workbook is, up to the order of its sheets, a function of
\* the workbook file and of the service's translations alone: a first run, a
\* second run and every interleaving of the tasks and workers give that output.
C11_Deterministic ==
    (pc = "done" /\ SuccessfulDeterministic) =>
        /\ DOMAIN cache = FlaggedOfFile(book)
        /\ \A s \in DOMAIN cache : okVals[s] \subseteq {cache[s]}
        /\ {written[q] : q \in DOMAIN written} = OutputOf(book, cache)
        /\ Len(written) = Cardinality(OutputOf(book, cache))

C11_Witness ==
    /\ pc = "done" /\ SuccessfulDeterministic
    /\ finish_order = <<2, 1>>
    /\ \E s \in AllStr : issued[1][s] = 1 /\ issued[2][s] = 1
    /\ \E s \in AllStr : issued[0][s] = 1
    /\ \E p \in Sheets : \E i \in Cols : ~isascii(dfs[p].df.columns[i])

\* a second run that found everything in the cache
C11_RerunReached ==
    /\ pc = "done"
    /\ cache # EmptyDict
    /\ \A c \in Callers : \A s \in AllStr : issued[c][s] = 0

\* C12: with a path that does not exist the constructor ends in the
\* file-not-found error, and then no cache has been created, no sheet loaded,
\* no service call issued and nothing written; the run never goes further.
C12_MissingFileFailsFast ==
    /\ ~pathExists => pc \in {"new", "error"}
    /\ pc = "error" =>
         /\ ~pathExists
         /\ ~cacheMade
         /\ dfs = <<>>
         /\ \A c \in Callers : \A s \in AllStr : issued[c][s] = 0
         /\ written = <<>>

C12_Witness == pc = "error" /\ ~pathExists /\ ~cacheMade

\* this step is the return of a successful call for s: a write of cache[s]
WriteStep(s) ==
    \E c \in Callers : s \in inflight[c] /\ s \notin inflight'[c] /\ failed'[c] = failed[c]

\* C13 as claimed: a key of the cache is never written again, and it stays
\* present with the same value.
C13_WrittenOnce ==
    [][\A s \in DOMAIN cache :
          /\ s \in DOMAIN cache'
          /\ cache'[s] = cache[s]
          /\ ~WriteStep(s)]_vars

\* C13, amended: a key of the cache stays present; its value changes only by a
\* later successful call for the same text, and no caller writes a key twice.
C13_NeverRemoved ==
    [][/\ \A s \in DOMAIN cache :
             /\ s \in DOMAIN cache'
             /\ cache'[s] # cache[s] => (WriteStep(s) /\ cache'[s] \in okVals'[s])
       /\ \A s \in AllStr : WriteStep(s) =>
             \E c \in Callers : /\ s \in inflight[c] /\ s \notin inflight'[c]
                                /\ issued[c][s] = 1 /\ s \notin keysAtCheck[c]]_vars

C13_Witness ==
    \E s \in DOMAIN cache :
        /\ Cardinality(okVals[s]) = 2
        /\ Cardinality({c \in Callers : issued[c][s] = 1 /\ s \notin inflight[c]
                                         /\ s \notin failed[c]}) = 2

\* C14: a step in which a call of translate fails leaves the whole cache as it
\* was, ends the task, and does not abort the run.
C14_FailureLeavesCache ==
    [][\A c \in Callers : \A s \in failed'[c] \ failed[c] :
          /\ cache' = cache
          /\ s \in inflight[c] /\ s \notin inflight'[c]
          /\ pc' = pc /\ pc' \notin {"error", "aborted"}]_vars

C14_Witness ==
    \E c \in Callers : \E s \in failed[c] :
        /\ s \notin DOMAIN cache
        /\ cache # EmptyDict
        /\ \E d \in Callers : \E t \in failed[d] : t \in DOMAIN cache

\* this step is a cache read of sheet p's worker for its output
ReadStep(p) == idx'[p] # idx[p] /\ ppc[p] \in {"lookup", "rename"} /\ ppc'[p] = ppc[p]

\* C15: translate_async is a barrier: a sheet processor that is past it has no
\* task in flight, every one of its cache reads for the output is made with
\* none in flight, and none of its tasks returns after such a read.
C15_DispatcherBarrier ==
    /\ [](\A p \in Sheets : ppc[p] \in {"lookup", "rename", "returned"} =>
              inflight[p] = {})
    /\ [][\A p \in Sheets :
             /\ ReadStep(p) => inflight[p] = {}
             /\ (ppc[p] # "idle" /\ ppc[p] # "async") => inflight'[p] = inflight[p]]_vars

C15_Witness ==
    \E p \in Sheets : \E k \in FlaggedCells(p) :
        LET s == dfs[p].df.cells[k].val
        IN  /\ ppc[p] = "returned"
            /\ issued[p][s] = 1
            /\ Len(finish_order) = 1
            /\ translated_df[p].cells[k] = Str(cache[s])
            /\ s \notin keysAtCheck[p]

PhaseRank(x) ==
    CASE x = "new" -> 0
      [] x = "ready" -> 1
      [] x = "loaded" -> 2
      [] x = "names" -> 3
      [] x = "pool" -> 4
      [] x = "write" -> 5
      [] x = "done" -> 6
      [] OTHER -> 7

\* C16: no sheet processor has started unless every sheet-name task has
\* returned and the pairs are built; the write step is entered only when every
\* sheet processor has returned; and translate_excel never moves back to an
\* earlier phase nor re-enters the one it left.
C16_StrictlyLinear ==
    /\ []((\E p \in 1..MaxSheets : ppc[p] # "idle") =>
              /\ pc \in {"pool", "write", "done"}
              /\ inflight[0] = {}
              /\ Len(args) = Len(dfs))
    /\ [](Finished => \A p \in Sheets : ppc[p] = "returned")
    /\ [][/\ PhaseRank(pc') >= PhaseRank(pc)
          /\ \A p \in Sheets : ppc[p] = "returned" => ppc'[p] = "returned"]_vars

C16_Witness ==
    /\ pc = "done"
    /\ Len(dfs) = 2
    /\ \E s \in AllStr : issued[0][s] = 1
    /\ \E p \in Sheets : \E s \in AllStr : issued[p][s] = 1

\* C17: in the frame a sheet processor returns, the occurrences of one flagged
\* text (cells and column labels) either all hold one translation of it or
\* are all left untranslated.
C17_WithinSheetConsistent ==
    \A p \in Sheets : ppc[p] = "returned" =>
        \A s \in FlaggedOfSheet(p) :
            LET cells == {k \in FlaggedCells(p) : dfs[p].df.cells[k].val = s}
                cols == {i \in Cols : dfs[p].df.columns[i] = s}
            IN  \/ /\ cells \subseteq missed[p]
                   /\ \A i \in cols : translated_df[p].columns[i] = s
                \/ \E v \in TransVals :
                      /\ \A k \in cells : translated_df[p].cells[k] = Str(v)
                      /\ \A i \in cols : translated_df[p].columns[i] = v

\* the same with a service that answered every call, and always the same
WithinSheetConsistentDeterministic ==
    SuccessfulDeterministic => C17_WithinSheetConsistent

\* C18: when the output names are pairwise distinct, the written workbook
\* lists the sheets in the order of the loaded workbook, each with the frame
\* its sheet processor returned.
C18_OutputOrder ==
    (pc = "done" /\ \A p, q \in Sheets : p # q => args[p].name # args[q].name) =>
        /\ Len(written) = Len(dfs)
        /\ \A p \in Sheets :
              /\ written[p].name = args[p].name
              /\ written[p].df = translated_df[p]

C18_Witness ==
    /\ pc = "done"
    /\ finish_order = <<2, 1>>
    /\ args[1].name # args[2].name
    /\ written[1].df # written[2].df
    /\ dfs[1].name # args[1].name

====
